---- MODULE Spec2Model ----
(***************************************************************************)
(* A model of the markdown knowledge base of mcp_markdown: the Document    *)
(* Store (FileManager, file_operations.py) over a file system, and the     *)
(* guide resource handlers of server.py and service.py.                    *)
(*                                                                         *)
(* Text (a Python str) is a sequence of one-character strings.  A path is  *)
(* the sequence of its parts (pathlib's Path.parts), each part a text; an  *)
(* absolute path starts with the part "/".  A file-system location is the  *)
(* sequence of parts below "/" that the operating system resolves a path   *)
(* to.  Metadata (a Python dict) is a function from key texts to value     *)
(* texts.  An optional argument is <<>> (None) or <<v>>.                   *)
(*                                                                         *)
(* files maps the location of each regular file to its text, dirs is the   *)
(* set of directories, last is the call answered last with its answer, and *)
(* calls holds, for each concurrent caller of update_file, how far its     *)
(* call has come.                                                          *)
(***************************************************************************)
EXTENDS Integers, Sequences, FiniteSets, TLC

VARIABLES files, dirs, last, calls

vars == <<files, dirs, last, calls>>

(***************************************************************************)
(* Characters and text                                                     *)
(***************************************************************************)

\* The characters the model's texts are made of, in code-point order
\* (Python compares str values code point by code point).
Ascii ==
    << "\n", " ", "-", ".", "/", "0", "1", "2", ":",
       "A", "B", "G", "L", "M", "T", "U",
       "a", "b", "c", "d", "e", "g", "i", "k", "l", "m", "n", "o", "p",
       "r", "s", "t", "u", "x", "y", "{", "}" >>

Ord(c) == CHOOSE i \in 1..Len(Ascii) : Ascii[i] = c

\* str.lower() on one character.
LowerChar(c) ==
    CASE c = "A" -> "a" [] c = "B" -> "b" [] c = "G" -> "g" [] c = "L" -> "l"
      [] c = "M" -> "m" [] c = "T" -> "t" [] c = "U" -> "u" [] OTHER -> c

\* The capital I with a dot above (U+0130), the one character that
\* str.lower() turns into two: an i and the combining dot above (U+0307).
I_DOT == "<U+0130>"
COMBINING_DOT == "<U+0307>"

\* str.lower(): character by character, I_DOT becoming two characters.
Lower(s) ==
    IF \A k \in 1..Len(s) : s[k] # I_DOT
    THEN [i \in 1..Len(s) |-> LowerChar(s[i])]
    ELSE LET dots  == {k \in 1..Len(s) : s[k] = I_DOT}
             \* where the lowering of s[i] starts in the result
             first == [i \in 1..Len(s) |->
                          i + Cardinality({k \in dots : k < i})]
         IN  [j \in 1..(Len(s) + Cardinality(dots)) |->
                 LET i == CHOOSE i \in 1..Len(s) :
                             first[i] <= j /\ (i = Len(s) \/ j < first[i + 1])
                 IN  IF s[i] # I_DOT THEN LowerChar(s[i])
                     ELSE IF j = first[i] THEN "i" ELSE COMBINING_DOT]

\* The characters str.strip() removes.
IsSpace(c) == c \in {" ", "\n", "\t", "\r"}

RECURSIVE LStrip(_)
LStrip(s) == IF s # <<>> /\ IsSpace(Head(s)) THEN LStrip(Tail(s)) ELSE s

RECURSIVE RStrip(_)
RStrip(s) ==
    IF s # <<>> /\ IsSpace(s[Len(s)]) THEN RStrip(SubSeq(s, 1, Len(s) - 1)) ELSE s

\* str.strip()
Strip(s) == RStrip(LStrip(s))

\* s[i:] starts with t
StartsAt(s, t, i) ==
    /\ i + Len(t) - 1 <= Len(s)
    /\ \A j \in 1..Len(t) : s[i + j - 1] = t[j]

StartsWith(s, t) == StartsAt(s, t, 1)

EndsWith(s, t) == Len(t) <= Len(s) /\ StartsAt(s, t, Len(s) - Len(t) + 1)

\* str.find, 1-based: the index of the first occurrence of t in s, 0 when t
\* does not occur in s.
Find(s, t) ==
    LET hits == {i \in 1..(Len(s) - Len(t) + 1) : StartsAt(s, t, i)}
    IN  IF hits = {} THEN 0 ELSE CHOOSE i \in hits : \A j \in hits : i <= j

\* t in s
Contains(s, t) == Find(s, t) # 0

\* a < b as Python compares str values.
RECURSIVE StrLess(_, _)
StrLess(a, b) ==
    IF b = <<>> THEN FALSE
    ELSE IF a = <<>> THEN TRUE
    ELSE IF Head(a) = Head(b) THEN StrLess(Tail(a), Tail(b))
    ELSE Ord(Head(a)) < Ord(Head(b))

\* The concatenation of the texts of a sequence of texts.
RECURSIVE Concat(_)
Concat(ss) == IF ss = <<>> THEN <<>> ELSE Head(ss) \o Concat(Tail(ss))

\* sep.join(ss)
RECURSIVE JoinWith(_, _)
JoinWith(ss, sep) ==
    IF ss = <<>> THEN <<>>
    ELSE IF Len(ss) = 1 THEN ss[1]
    ELSE ss[1] \o sep \o JoinWith(Tail(ss), sep)

\* s.split("\n"): the texts between the line breaks of s.
SplitLines(s) ==
    LET breaks == {i \in 1..Len(s) : s[i] = "\n"}
        \* the position of the n-th line break; 0 and Len(s) + 1 bound the text
        at(n)  == IF n = 0 THEN 0
                  ELSE IF n > Cardinality(breaks) THEN Len(s) + 1
                  ELSE CHOOSE i \in breaks :
                          Cardinality({j \in breaks : j < i}) = n - 1
    IN  [n \in 1..(Cardinality(breaks) + 1) |->
            SubSeq(s, at(n - 1) + 1, at(n) - 1)]

\* sorted(S) for a set S of texts.
RECURSIVE SortedSeq(_)
SortedSeq(S) ==
    IF S = {} THEN <<>>
    ELSE LET m == CHOOSE x \in S : \A y \in S \ {x} : StrLess(x, y)
         IN  <<m>> \o SortedSeq(S \ {m})

(***************************************************************************)
(* The front-matter format (python-frontmatter, as the store calls it)     *)
(***************************************************************************)

NoMetadata == [k \in {} |-> <<>>]

\* dict.update: the keys of b override those of a, every other key of a stays.
DictUpdate(a, b) ==
    [k \in (DOMAIN a) \cup (DOMAIN b) |-> IF k \in DOMAIN b THEN b[k] ELSE a[k]]

\* yaml.dump(metadata, default_flow_style=False): one "key: value" line per key,
\* keys sorted, "{}" for an empty map.  Values are plain scalars.
YamlDump(m) ==
    IF DOMAIN m = {} THEN <<"{", "}", "\n">>
    ELSE LET keys == SortedSeq(DOMAIN m)
         IN  Concat([i \in 1..Len(keys) |->
                        keys[i] \o <<":", " ">> \o m[keys[i]] \o <<"\n">>])

\* The map a sequence of "key: value" lines denotes (a later line overrides).
RECURSIVE YamlLines(_)
YamlLines(lines) ==
    IF lines = <<>> THEN NoMetadata
    ELSE LET rest == YamlLines(SubSeq(lines, 1, Len(lines) - 1))
             line == Strip(lines[Len(lines)])
             i    == Find(line, <<":", " ">>)
         IN  IF line = <<>> \/ line = <<"{", "}">> \/ i = 0 THEN rest
             ELSE DictUpdate(rest,
                    [k \in {SubSeq(line, 1, i - 1)} |->
                        Strip(SubSeq(line, i + 2, Len(line)))])

\* yaml.load of a metadata block.
YamlLoad(text) == YamlLines(SplitLines(text))

\* A line FM_BOUNDARY (^-{3,}\s*$) matches: three or more dashes, then blanks.
IsBoundary(line) ==
    LET core == RStrip(line)
    IN  Len(core) >= 3 /\ \A i \in 1..Len(core) : core[i] = "-"

\* frontmatter.dumps(post) as it returns without the final strip.
DumpsRaw(post) ==
    <<"-", "-", "-", "\n">> \o Strip(YamlDump(post.metadata))
        \o <<"\n", "-", "-", "-", "\n", "\n">> \o post.content \o <<"\n">>

\* frontmatter.dumps(post): the filled template, stripped.
Dumps(post) == Strip(DumpsRaw(post))

\* frontmatter.loads(text): the metadata block between the first two boundary
\* lines and the stripped text after it; a text without them is all content.
Loads(text) ==
    LET t     == Strip(text)
        lines == SplitLines(t)
        ends  == {j \in 2..Len(lines) : IsBoundary(lines[j])}
    IN  IF ~IsBoundary(lines[1]) \/ ends = {}
        THEN [content |-> t, metadata |-> NoMetadata]
        ELSE LET j == CHOOSE x \in ends : \A y \in ends : x <= y
             IN  [content  |-> Strip(JoinWith(SubSeq(lines, j + 1, Len(lines)), <<"\n">>)),
                  metadata |-> YamlLoad(JoinWith(SubSeq(lines, 2, j - 1), <<"\n">>))]

(***************************************************************************)
(* Paths and the file system                                               *)
(***************************************************************************)

SLASH  == <<"/">>
DOTDOT == <<".", ".">>
KB     == <<"k", "b">>
SYSTEM == <<"s", "y", "s", "t", "e", "m">>
GUIDE_NAME == <<"l", "l", "m", "-", "g", "u", "i", "d", "e", ".", "m", "d">>

\* self.root_path: the resolved, absolute root directory.
RootPath == <<SLASH, KB>>

\* a / b of pathlib: an absolute b replaces a.
JoinPath(base, rel) ==
    IF rel # <<>> /\ Head(rel) = SLASH THEN rel ELSE base \o rel

\* path.parent
Parent(path) == SubSeq(path, 1, Len(path) - 1)

\* The location the operating system resolves a path to: "/" restarts at the
\* top, ".." steps to the parent directory.
RECURSIVE Resolve(_, _)
Resolve(parts, acc) ==
    IF parts = <<>> THEN acc
    ELSE IF Head(parts) = SLASH THEN Resolve(Tail(parts), <<>>)
    ELSE IF Head(parts) = DOTDOT
         THEN Resolve(Tail(parts),
                      IF acc = <<>> THEN <<>> ELSE SubSeq(acc, 1, Len(acc) - 1))
    ELSE Resolve(Tail(parts), Append(acc, Head(parts)))

Locate(path) == Resolve(path, <<>>)

RootLoc == Locate(RootPath)

\* self.system_path = self.root_path / system_directory
SystemLoc == Locate(JoinPath(RootPath, <<SYSTEM>>))

\* path.relative_to(base): lexical, on the parts; fails when base is no prefix.
RelativeTo(path, base) ==
    IF Len(path) >= Len(base) /\ SubSeq(path, 1, Len(base)) = base
    THEN [ok |-> TRUE, parts |-> SubSeq(path, Len(base) + 1, Len(path))]
    ELSE [ok |-> FALSE, parts |-> <<>>]

\* str(path) of a relative path.
Str(parts) == JoinWith(parts, <<"/">>)

\* The location lies below the root directory.
UnderRoot(loc) ==
    Len(loc) > Len(RootLoc) /\ SubSeq(loc, 1, Len(RootLoc)) = RootLoc

\* path.exists()
Exists(fs, ds, loc) == loc \in DOMAIN fs \/ loc \in ds

\* open(path, 'w').write(text)
WriteText(fs, loc, text) ==
    [l \in (DOMAIN fs) \cup {loc} |-> IF l = loc THEN text ELSE fs[l]]

\* path.unlink()
Unlink(fs, loc) == [l \in (DOMAIN fs) \ {loc} |-> fs[l]]

\* What an operation of the store leaves: the files, the directories, how it
\* ended ("ok" or the exception raised) and what it returned.
Outcome(fs, ds, out, ret) == [files |-> fs, dirs |-> ds, out |-> out, ret |-> ret]

(***************************************************************************)
(* FileManager: create, read, update, delete                               *)
(***************************************************************************)

\* The post create_file writes: metadata is added only when it is truthy.
NewPost(content, metadata) ==
    [content  |-> content,
     metadata |-> IF metadata # <<>> /\ DOMAIN metadata[1] # {}
                  THEN DictUpdate(NoMetadata, metadata[1]) ELSE NoMetadata]

\* The post update_file writes over the post it read.
UpdatedPost(post, content, metadata) ==
    [content  |-> IF content # <<>> THEN content[1] ELSE post.content,
     metadata |-> IF metadata # <<>> THEN DictUpdate(post.metadata, metadata[1])
                  ELSE post.metadata]

\* FileManager.create_file(relative_path, content, metadata)
CreateFile(fs, ds, rel, content, metadata) ==
    LET path    == JoinPath(RootPath, rel)
        loc     == Locate(path)
        par     == Locate(Parent(path))
        \* parent.mkdir(parents=True, exist_ok=True)
        blocked == {i \in 1..Len(par) : SubSeq(par, 1, i) \in DOMAIN fs}
        upto    == IF blocked = {} THEN Len(par)
                   ELSE (CHOOSE i \in blocked : \A j \in blocked : i <= j) - 1
        ds2     == ds \cup {SubSeq(par, 1, i) : i \in 0..upto}
        back    == RelativeTo(path, RootPath)
    IN  IF blocked # {} THEN Outcome(fs, ds2, "FileExistsError", <<>>)
        ELSE IF loc \in ds2 THEN Outcome(fs, ds2, "IsADirectoryError", <<>>)
        ELSE LET fs2 == WriteText(fs, loc, Dumps(NewPost(content, metadata)))
             IN  IF back.ok THEN Outcome(fs2, ds2, "ok", back.parts)
                 ELSE Outcome(fs2, ds2, "ValueError", <<>>)

\* FileManager.read_file(relative_path)
ReadFile(fs, ds, rel) ==
    LET loc == Locate(JoinPath(RootPath, rel))
    IN  IF ~Exists(fs, ds, loc) THEN Outcome(fs, ds, "FileNotFoundError", <<>>)
        ELSE IF loc \in ds THEN Outcome(fs, ds, "IsADirectoryError", <<>>)
        ELSE LET post == Loads(fs[loc])
             IN  Outcome(fs, ds, "ok",
                         [content   |-> post.content,
                          metadata  |-> post.metadata,
                          file_path |-> rel])

\* update_file without its existence check: a missing target is created.
UpdateFileUpsert(fs, ds, rel, content, metadata) ==
    LET path == JoinPath(RootPath, rel)
        loc  == Locate(path)
        back == RelativeTo(path, RootPath)
        old  == IF loc \in DOMAIN fs THEN Loads(fs[loc])
                ELSE [content |-> <<>>, metadata |-> NoMetadata]
    IN  IF loc \in ds THEN Outcome(fs, ds, "IsADirectoryError", <<>>)
        ELSE LET post == UpdatedPost(old, content, metadata)
                 fs2  == WriteText(fs, loc, Dumps(post))
             IN  IF back.ok THEN Outcome(fs2, ds, "ok", back.parts)
                 ELSE Outcome(fs2, ds, "ValueError", <<>>)

\* FileManager.update_file(relative_path, content, metadata)
UpdateFile(fs, ds, rel, content, metadata) ==
    LET path == JoinPath(RootPath, rel)
        loc  == Locate(path)
        back == RelativeTo(path, RootPath)
    IN  IF ~Exists(fs, ds, loc) THEN Outcome(fs, ds, "FileNotFoundError", <<>>)
        ELSE IF loc \in ds THEN Outcome(fs, ds, "IsADirectoryError", <<>>)
        ELSE LET post == UpdatedPost(Loads(fs[loc]), content, metadata)
                 fs2  == WriteText(fs, loc, Dumps(post))
             IN  IF back.ok THEN Outcome(fs2, ds, "ok", back.parts)
                 ELSE Outcome(fs2, ds, "ValueError", <<>>)

\* The text a write step would write if it loaded the file again: the
\* update made atomic.
WrittenTextFresh(fs, call) ==
    Dumps(UpdatedPost(Loads(fs[Locate(JoinPath(RootPath, call.path))]),
                      call.content, call.metadata))

\* The text update_file writes: the post it loaded, changed in memory and
\* dumped, whatever the file holds by now.
WrittenText(fs, call) ==
    Dumps(UpdatedPost(call.post, call.content, call.metadata))

\* delete_file without its existence check: unlink raises on a missing target.
DeleteFileUnchecked(fs, ds, rel) ==
    LET loc == Locate(JoinPath(RootPath, rel))
    IN  IF ~Exists(fs, ds, loc) THEN Outcome(fs, ds, "FileNotFoundError", <<>>)
        ELSE IF loc \in ds THEN Outcome(fs, ds, "IsADirectoryError", <<>>)
        ELSE Outcome(Unlink(fs, loc), ds, "ok", TRUE)

\* FileManager.delete_file(relative_path)
DeleteFile(fs, ds, rel) ==
    LET loc == Locate(JoinPath(RootPath, rel))
    IN  IF ~Exists(fs, ds, loc) THEN Outcome(fs, ds, "ok", FALSE)
        ELSE IF loc \in ds THEN Outcome(fs, ds, "IsADirectoryError", <<>>)
        ELSE Outcome(Unlink(fs, loc), ds, "ok", TRUE)

(***************************************************************************)
(* FileManager: list and search                                            *)
(***************************************************************************)

\* The last part of a location.
Name(loc) == loc[Len(loc)]

\* The path of a location below the root, relative to the root.
RelParts(loc) == SubSeq(loc, Len(RootLoc) + 1, Len(loc))

\* fnmatch of a name against a pattern "*<suffix>".
GlobMatch(name, pattern) ==
    pattern # <<>> /\ Head(pattern) = "*" /\ EndsWith(name, Tail(pattern))

\* root_path.rglob(pattern): every entry below the root, file or directory,
\* whose name matches.
Rglob(fs, ds, pattern) ==
    {loc \in (DOMAIN fs) \cup ds : UnderRoot(loc) /\ GlobMatch(Name(loc), pattern)}

\* path.is_file()
IsFile(fs, loc) == loc \in DOMAIN fs

\* list_files without the is_file() test.
ListFilesAnyEntry(fs, ds, pattern) ==
    SortedSeq({Str(RelParts(loc)) : loc \in Rglob(fs, ds, pattern)})

\* FileManager.list_files(pattern)
ListFiles(fs, ds, pattern) ==
    SortedSeq({Str(RelParts(loc)) :
                 loc \in {l \in Rglob(fs, ds, pattern) : IsFile(fs, l)}})

ContextChars == 100

Max(a, b) == IF a >= b THEN a ELSE b
Min(a, b) == IF a <= b THEN a ELSE b

\* FileManager._get_match_preview(content, query, context_chars)
GetMatchPreview(content, query, context_chars) ==
    LET index == Find(Lower(content), Lower(query)) - 1
        start == Max(0, index - context_chars)
        end   == Min(Len(content), index + Len(query) + context_chars)
        head  == IF start > 0 THEN <<".", ".", ".">> ELSE <<>>
        tail  == IF end < Len(content) THEN <<".", ".", ".">> ELSE <<>>
    IN  IF index = -1 THEN <<>>
        ELSE head \o SubSeq(content, start + 1, end) \o tail

MD_PATTERN == <<"*", ".", "m", "d">>

\* The test of search_content without lower-casing.
MatchesCaseSensitive(content, query) == Contains(content, query)

\* The test of search_content on one file's text.
Matches(content, query) == Contains(Lower(content), Lower(query))

\* FileManager.search_content(query), the entries met in the order `order`:
\* an entry that cannot be opened (a directory) is skipped.
RECURSIVE SearchContent(_, _, _)
SearchContent(fs, order, query) ==
    IF order = <<>> THEN <<>>
    ELSE LET loc  == Head(order)
             rest == SearchContent(fs, Tail(order), query)
         IN  IF IsFile(fs, loc) /\ Matches(fs[loc], query)
             THEN << [file_path     |-> Str(RelParts(loc)),
                      match_preview |-> GetMatchPreview(fs[loc], query, ContextChars)] >>
                  \o rest
             ELSE rest

\* The orders in which a directory walk may meet the entries of S.
Orderings(S) ==
    {o \in [1..Cardinality(S) -> S] :
        \A i, j \in 1..Cardinality(S) : i # j => o[i] # o[j]}

(***************************************************************************)
(* FileManager: the guide                                                  *)
(***************************************************************************)

GuidePath == <<SYSTEM, GUIDE_NAME>>
GuideLoc  == Locate(JoinPath(RootPath, GuidePath))

K_type      == <<"t", "y", "p", "e">>
K_title     == <<"t", "i", "t", "l", "e">>
K_generated == <<"g", "e", "n", "e", "r", "a", "t", "e", "d">>
V_system    == <<"s", "y", "s", "t", "e", "m">>
V_title     == <<"L", "L", "M", " ", "U", "s", "a", "g", "e", " ",
                 "G", "u", "i", "d", "e">>

\* The metadata create_llm_guide and get_llm_guide attach; `now` is
\* datetime.now().isoformat().
GuideMetadata(now) ==
    [k \in {K_type, K_title, K_generated} |->
        IF k = K_type THEN V_system ELSE IF k = K_title THEN V_title ELSE now]

Indent(level) == Concat([i \in 1..level |-> <<" ", " ">>])

\* The names of the entries of S directly inside directory loc, sorted.
ChildNames(S, loc) ==
    SortedSeq({Name(l) : l \in {x \in S : x # <<>> /\ Parent(x) = loc}})

\* The lines os.walk adds to the guide for directory loc and all below it.
\* (The order of the entries is the operating system's; it is taken sorted.)
RECURSIVE WalkLines(_, _, _)
WalkLines(fs, ds, loc) ==
    LET level == Len(loc) - Len(RootLoc)
        mds   == SelectSeq(ChildNames(DOMAIN fs, loc),
                           LAMBDA n : EndsWith(n, <<".", "m", "d">>))
        subs  == ChildNames(ds, loc)
    IN  Indent(level) \o <<"-", " ">> \o Name(loc) \o <<"/", "\n">>
        \o Concat([i \in 1..Len(mds) |->
                     Indent(level + 1) \o <<"-", " ">> \o mds[i] \o <<"\n">>])
        \o Concat([i \in 1..Len(subs) |-> WalkLines(fs, ds, Append(loc, subs[i]))])

TEMPLATES == <<"t", "e", "m", "p", "l", "a", "t", "e", "s">>
TEMPLATE_SUFFIX ==
    <<".", "t", "e", "m", "p", "l", "a", "t", "e", ".", "m", "d">>

\* The "- <name>" lines of system/templates/*.template.md.
TemplateLines(fs, ds) ==
    LET dir   == Append(SystemLoc, TEMPLATES)
        names == SelectSeq(ChildNames(DOMAIN fs, dir),
                           LAMBDA n : EndsWith(n, TEMPLATE_SUFFIX))
    IN  IF dir \notin ds THEN <<>>
        ELSE Concat([i \in 1..Len(names) |->
                <<"-", " ">>
                \o SubSeq(names[i], 1, Len(names[i]) - Len(TEMPLATE_SUFFIX))
                \o <<"\n">>])

\* FileManager.generate_llm_guide(): the fixed prose is one token per block.
GenerateLlmGuide(fs, ds) ==
    <<"<guide: overview, directory structure>", "\n">>
    \o WalkLines(fs, ds, RootLoc)
    \o <<"\n", "<guide: file operations, best practices, templates>", "\n">>
    \o TemplateLines(fs, ds)

\* FileManager.create_llm_guide()
CreateLlmGuide(fs, ds, now) ==
    CreateFile(fs, ds, GuidePath, GenerateLlmGuide(fs, ds), <<GuideMetadata(now)>>)

\* templates/llm-guide-template.md, bundled beside file_operations.py.
TemplateExists == TRUE
TemplateContent == <<"<llm-guide-template.md>", "\n">>

\* FileManager.get_llm_guide()
GetLlmGuide(fs, ds, now) ==
    LET made == IF ~Exists(fs, ds, GuideLoc) /\ TemplateExists
                THEN CreateFile(fs, ds, GuidePath, TemplateContent,
                                <<GuideMetadata(now)>>)
                ELSE Outcome(fs, ds, "ok", <<>>)
    IN  IF made.out # "ok" THEN made
        ELSE ReadFile(made.files, made.dirs, GuidePath)

(***************************************************************************)
(* The guide resource of the server                                        *)
(***************************************************************************)

SCHEME == <<"l", "l", "m", "-", "g", "u", "i", "d", "e", ":", "/", "/">>

\* "llm-guide://system/llm-guide.md"
GuideUri == SCHEME \o Str(GuidePath)

\* str(e) of the exception an operation of the store raised on path rel.
ErrorText(out, rel) ==
    IF out = "FileNotFoundError" THEN <<"File not found: ">> \o Str(rel)
    ELSE <<"[", out, "] ">> \o Str(rel)

\* The guide's content with its metadata, when there is any, as a header block.
WithHeader(content, metadata) ==
    IF DOMAIN metadata = {} THEN content
    ELSE LET keys == SortedSeq(DOMAIN metadata)
         IN  <<"-", "-", "-", "\n">>
             \o JoinWith([i \in 1..Len(keys) |->
                            keys[i] \o <<":", " ">> \o metadata[keys[i]]], <<"\n">>)
             \o <<"\n", "-", "-", "-", "\n", "\n">> \o content

\* read_resource(uri) of MarkdownMCPServer: always returns a text.
ServerReadResource(fs, ds, uri) ==
    IF uri = GuideUri
    THEN LET r == ReadFile(fs, ds, GuidePath)
         IN  IF r.out = "ok"
             THEN Outcome(fs, ds, "ok", WithHeader(r.ret.content, r.ret.metadata))
             ELSE Outcome(fs, ds, "ok", <<"Error: ">> \o ErrorText(r.out, GuidePath))
    ELSE Outcome(fs, ds, "ok", <<"Unknown resource: ">> \o uri)

\* The else branch of MarkdownService.read_resource: the URI has the scheme
\* and is not the guide's.
ServiceUnknownResource(fs, ds, uri) ==
    Outcome(fs, ds, "ValueError", <<"Unknown resource: ">> \o uri)

\* MarkdownService.read_resource(uri): the text, or ValueError.
ServiceReadResource(fs, ds, uri) ==
    IF ~StartsWith(uri, SCHEME)
    THEN Outcome(fs, ds, "ValueError",
                 <<"Invalid URI scheme. Expected 'llm-guide://', got: ">> \o uri)
    ELSE IF uri = GuideUri
    THEN LET r == ReadFile(fs, ds, GuidePath)
         IN  IF r.out = "ok"
             THEN Outcome(fs, ds, "ok", WithHeader(r.ret.content, r.ret.metadata))
             ELSE IF r.out = "FileNotFoundError"
             THEN Outcome(fs, ds, "ValueError",
                          <<"Resource not found: ">> \o uri \o <<" ", "-", " ">>
                          \o ErrorText(r.out, GuidePath))
             ELSE Outcome(fs, ds, "ValueError",
                          <<"Error reading resource ">> \o uri \o <<":", " ">>
                          \o ErrorText(r.out, GuidePath))
    ELSE ServiceUnknownResource(fs, ds, uri)

(***************************************************************************)
(* The dispatcher: call_tool of MarkdownService and of MarkdownMCPServer   *)
(***************************************************************************)

\* arguments[key] defaulting to the empty text instead of raising KeyError.
GetItemOrEmpty(arguments, key) ==
    IF key \in DOMAIN arguments THEN [ok |-> TRUE, value |-> arguments[key]]
    ELSE [ok |-> TRUE, value |-> <<>>]

\* arguments[key]: the value, or KeyError(key).
GetItem(arguments, key) ==
    IF key \in DOMAIN arguments THEN [ok |-> TRUE, value |-> arguments[key]]
    ELSE [ok |-> FALSE, value |-> <<>>]

\* arguments.get(key): None or the value.
Get(arguments, key) ==
    IF key \in DOMAIN arguments THEN <<arguments[key]>> ELSE <<>>

\* str(KeyError(key))
KeyErrorText(key) == <<"'", key, "'">>

RECURSIVE FirstKeyError(_, _)

\* A KeyError raised before the store is called.
MissingKey(fs, ds, key) == Outcome(fs, ds, "KeyError", KeyErrorText(key))

\* The exception a store operation raised, with str(e) as its value.
Raised(r, rel) == Outcome(r.files, r.dirs, r.out, ErrorText(r.out, rel))

\* str(dict) of a metadata map.
DictRepr(metadata) ==
    LET keys == SortedSeq(DOMAIN metadata)
    IN  <<"{">>
        \o JoinWith([i \in 1..Len(keys) |->
                        <<"'">> \o keys[i] \o <<"'", ":", " ", "'">>
                        \o metadata[keys[i]] \o <<"'">>], <<",", " ">>)
        \o <<"}">>

\* The text call_tool renders of what read_file returned.
ReadText(result) ==
    <<"#", " ">> \o Str(result.file_path) \o <<"\n", "\n">>
    \o (IF DOMAIN result.metadata # {}
        THEN <<"**Metadata:** ">> \o DictRepr(result.metadata) \o <<"\n", "\n">>
        ELSE <<>>)
    \o result.content

\* The text call_tool renders of what search_content returned.
SearchText(results) ==
    IF results = <<>> THEN <<"No matches found">>
    ELSE <<"Found ", ToString(Len(results)), " matches:", "\n", "\n">>
         \o Concat([i \in 1..Len(results) |->
                       <<"*", "*">> \o results[i].file_path \o <<"*", "*", "\n">>
                       \o results[i].match_preview \o <<"\n", "\n">>])

\* The names of the six operations.
TOOLS ==
    {"create_file", "read_file", "update_file", "delete_file", "list_files",
     "search_content"}

\* What call_tool does with the outcome r of create_file(rel, ...).
AnswerCreate(r, rel) ==
    IF r.out # "ok" THEN Raised(r, rel)
    ELSE Outcome(r.files, r.dirs, "ok", <<"Created file: ">> \o Str(r.ret))

\* What call_tool does with the outcome r of read_file(rel).
AnswerRead(r, rel) ==
    IF r.out # "ok" THEN Raised(r, rel)
    ELSE Outcome(r.files, r.dirs, "ok", ReadText(r.ret))

\* What call_tool does with the outcome r of update_file(rel, ...).
AnswerUpdate(r, rel) ==
    IF r.out # "ok" THEN Raised(r, rel)
    ELSE Outcome(r.files, r.dirs, "ok", <<"Updated file: ">> \o Str(r.ret))

\* What call_tool does with the outcome r of delete_file(rel).
AnswerDelete(r, rel) ==
    IF r.out # "ok" THEN Raised(r, rel)
    ELSE IF r.ret
    THEN Outcome(r.files, r.dirs, "ok", <<"Deleted file: ">> \o Str(rel))
    ELSE Outcome(r.files, r.dirs, "ok", <<"File not found: ">> \o Str(rel))

\* What call_tool does with the list list_files returned.
AnswerList(fs, ds, listed) ==
    Outcome(fs, ds, "ok",
            <<"Found ", ToString(Len(listed)), " files:", "\n">>
            \o JoinWith(listed, <<"\n">>))

\* The branch of call_tool for a name that needs arguments["path"].
DispatchOnPath(fs, ds, name, rel, arguments) ==
    IF name = "create_file"
    THEN IF "content" \notin DOMAIN arguments THEN MissingKey(fs, ds, "content")
         ELSE AnswerCreate(CreateFile(fs, ds, rel, arguments["content"],
                                      Get(arguments, "metadata")), rel)
    ELSE IF name = "read_file"
    THEN AnswerRead(ReadFile(fs, ds, rel), rel)
    ELSE IF name = "update_file"
    THEN AnswerUpdate(UpdateFile(fs, ds, rel, Get(arguments, "content"),
                                 Get(arguments, "metadata")), rel)
    ELSE AnswerDelete(DeleteFile(fs, ds, rel), rel)

\* The operations whose first argument is arguments["path"].
PATH_TOOLS == {"create_file", "read_file", "update_file", "delete_file"}

\* The arguments a branch of call_tool subscripts, in the order it does.
Subscripted(name) ==
    IF name = "create_file" THEN <<"path", "content">>
    ELSE IF name \in PATH_TOOLS THEN <<"path">>
    ELSE IF name = "search_content" THEN <<"query">>
    ELSE <<>>

\* The first of the keys whose subscript raises KeyError, or <<>>.
FirstKeyError(arguments, keys) ==
    IF keys = <<>> THEN <<>>
    ELSE IF ~GetItem(arguments, Head(keys)).ok THEN <<Head(keys)>>
    ELSE FirstKeyError(arguments, Tail(keys))

\* The body of the try block of call_tool: the text returned, or the
\* exception raised with str(e) as its value.  `order` is the order in which
\* rglob walks the files.
Dispatch(fs, ds, order, name, arguments) ==
    IF FirstKeyError(arguments, Subscripted(name)) # <<>>
    THEN MissingKey(fs, ds, FirstKeyError(arguments, Subscripted(name))[1])
    ELSE IF name \in PATH_TOOLS
    THEN DispatchOnPath(fs, ds, name, GetItem(arguments, "path").value, arguments)
    ELSE IF name = "list_files"
    THEN AnswerList(fs, ds,
                    ListFiles(fs, ds, IF "pattern" \in DOMAIN arguments
                                      THEN arguments["pattern"] ELSE MD_PATTERN))
    ELSE IF name = "search_content"
    THEN Outcome(fs, ds, "ok",
                 SearchText(SearchContent(fs, order,
                                          GetItem(arguments, "query").value)))
    ELSE Outcome(fs, ds, "ok", <<"Unknown tool: ", name>>)

\* What the except clause of MarkdownService.call_tool makes of r.
ServiceCaught(r, name) ==
    IF r.out = "ok" THEN r
    ELSE Outcome(r.files, r.dirs, "ok",
                 <<"Error executing tool '", name, "': ">> \o r.ret)

\* call_tool without its except clause: the exception reaches the caller.
ServiceCallToolUncaught(fs, ds, order, name, arguments) ==
    Dispatch(fs, ds, order, name, arguments)

\* MarkdownService.call_tool(name, arguments)
ServiceCallTool(fs, ds, order, name, arguments) ==
    ServiceCaught(Dispatch(fs, ds, order, name, arguments), name)

\* traceback.format_exc(): the stack, then the exception's type and str(e).
FormatExc(out, text) ==
    <<"Traceback (most recent call last):", "\n", "<stack>", "\n",
      out, ":", " ">> \o text \o <<"\n">>

\* What the except clause of the server's call_tool makes of r.
ServerCaught(r, name) ==
    IF r.out = "ok" THEN r
    ELSE Outcome(r.files, r.dirs, "ok",
                 <<"Error executing tool '", name, "':", "\n", "\n">>
                 \o FormatExc(r.out, r.ret))

\* call_tool(name, arguments) of MarkdownMCPServer
ServerCallTool(fs, ds, order, name, arguments) ==
    ServerCaught(Dispatch(fs, ds, order, name, arguments), name)

(***************************************************************************)
(* The inputs                                                              *)
(***************************************************************************)

A_MD  == <<"a", ".", "m", "d">>
D_MD  == <<"d", ".", "m", "d">>
C_TXT == <<"c", ".", "t", "x", "t">>
X_MD  == <<"x", ".", "m", "d">>

\* Relative paths a caller passes: a document in the root, one in a directory
\* whose name ends in .md, one through "..", an absolute one, the guide, and
\* the system directory itself.
Paths ==
    { <<A_MD>>, <<D_MD, C_TXT>>, <<DOTDOT, X_MD>>, <<SLASH, X_MD>>,
      GuidePath, <<SYSTEM>> }

Bodies == { <<"a">>, <<"B", "\n">> }

K_k  == <<"k">>
K_id == <<"i", "d">>

M_new == [k \in {K_k, K_id} |-> <<"a">>]
M_upd == [k \in {K_k} |-> <<"b">>]
M_upd2 == [k \in {K_id} |-> <<"b">>]

\* metadata arguments: None is <<>>.
CreateMetas == { <<>>, <<M_new>> }
UpdateMetas == { <<>>, <<M_upd>> }
UpdateBodies == { <<>>, << <<"B", "\n">> >> }

Queries == { <<"a">>, <<"b">>, <<"B">> }

Patterns == { MD_PATTERN, <<"*", ".", "t", "x", "t">> }

\* Values of datetime.now().isoformat().
Timestamps == { <<"T", "1">>, <<"T", "2">> }

Uris == { GuideUri, SCHEME \o A_MD, <<"x", ":", "/", "/">> \o A_MD }

\* The operation names a caller passes: the six operations and two others.
ToolNames == TOOLS \cup {"get_llm_guide", ""}

\* The argument map that holds each key whose option is not None.
MakeArguments(path, content, metadata, query, pattern) ==
    LET option == [k \in {"path", "content", "metadata", "query", "pattern"} |->
                      CASE k = "path"     -> path
                        [] k = "content"  -> content
                        [] k = "metadata" -> metadata
                        [] k = "query"    -> query
                        [] k = "pattern"  -> pattern]
    IN  [k \in {x \in DOMAIN option : option[x] # <<>>} |-> option[k][1]]

PathOptions  == { <<>>, << <<A_MD>> >>, << <<SLASH, X_MD>> >> }
QueryOptions == { <<>>, << <<"b">> >> }
PatternOptions == { <<>> }
ContentOptions == { <<>>, << <<"a">> >> }

\* n characters ch, which occurs in no query.
Pad(n, ch) == [i \in 1..n |-> ch]

\* The numbers of characters before and after the middle of a content.
PadLengths == {0, 1, 99, 100, 101}

\* The middles of the contents, and the queries searched in them.
Middles == { <<"a", "B">>, <<"a", "b", "-", "A", "B">>, <<"x">> }
PreviewQueries == { <<"a", "b">>, <<"A", "B">>, <<"B">> }

PreviewContents ==
    UNION { { Pad(n, ch) \o mid \o Pad(m, "-") :
                n \in PadLengths, m \in PadLengths, mid \in Middles } :
            ch \in {"-", I_DOT} }

\* At most this many regular files exist at once.
MaxFiles == 2

(***************************************************************************)
(* The state machine                                                       *)
(***************************************************************************)

NoFiles == [l \in {} |-> <<>>]

\* No call is in progress: `last` holds the call the store answered last until
\* its caller has taken the answer.
NoCall == [op |-> "none", args |-> <<>>, out |-> "ok", ret |-> <<>>]

\* The concurrent callers of update_file, and a caller with no call under way.
Callers == {1, 2}
NoUpdate == [pc |-> "idle"]

Idle == last.op = "none"

\* A call: it starts when the store is idle, leaves r.files and r.dirs, and
\* `last` keeps its arguments and its answer.
Done(op, args, r) ==
    /\ Idle
    /\ files' = r.files
    /\ dirs'  = r.dirs
    /\ last'  = [op |-> op, args |-> args, out |-> r.out, ret |-> r.ret]
    /\ UNCHANGED calls

\* FileManager.__init__ and create_llm_guide(), as MarkdownService.__init__
\* and MarkdownMCPServer.__init__ run them.
Construct(fs, ds, now) == CreateLlmGuide(fs, ds \cup {SystemLoc}, now)

Init ==
    \E now \in Timestamps :
        LET r == Construct(NoFiles, {<<>>, RootLoc}, now)
        IN  /\ files = r.files
            /\ dirs  = r.dirs
            /\ last  = [op |-> "construct", args |-> [now |-> now],
                        out |-> r.out, ret |-> r.ret]
            /\ calls = [c \in Callers |-> NoUpdate]

\* A new MarkdownService or MarkdownMCPServer over the same root directory.
Restart ==
    \E now \in Timestamps :
        LET r == Construct(files, dirs, now)
        IN  /\ Cardinality(DOMAIN r.files) <= MaxFiles
            /\ Done("construct", [now |-> now], r)

CreateOn(P) ==
    \E p \in P, c \in Bodies, m \in CreateMetas :
        LET r == CreateFile(files, dirs, p, c, m)
        IN  /\ Cardinality(DOMAIN r.files) <= MaxFiles
            /\ Done("create_file", [path |-> p, content |-> c, metadata |-> m], r)

ReadOn(P) ==
    \E p \in P :
        Done("read_file", [path |-> p], ReadFile(files, dirs, p))

UpdateOn(P) ==
    \E p \in P, c \in UpdateBodies, m \in UpdateMetas :
        Done("update_file", [path |-> p, content |-> c, metadata |-> m],
             UpdateFile(files, dirs, p, c, m))

DeleteOn(P) ==
    \E p \in P :
        Done("delete_file", [path |-> p], DeleteFile(files, dirs, p))

Create == CreateOn(Paths)
Read   == ReadOn(Paths)
Update == UpdateOn(Paths)
Delete == DeleteOn(Paths)

List ==
    \E pat \in Patterns :
        Done("list_files", [pattern |-> pat],
             Outcome(files, dirs, "ok", ListFiles(files, dirs, pat)))

Search ==
    \E q \in Queries, order \in Orderings(Rglob(files, dirs, MD_PATTERN)) :
        Done("search_content", [query |-> q],
             Outcome(files, dirs, "ok", SearchContent(files, order, q)))

Regenerate ==
    \E now \in Timestamps :
        LET r == CreateLlmGuide(files, dirs, now)
        IN  /\ Cardinality(DOMAIN r.files) <= MaxFiles
            /\ Done("create_llm_guide", [now |-> now], r)

GetGuide ==
    \E now \in Timestamps :
        LET r == GetLlmGuide(files, dirs, now)
        IN  /\ Cardinality(DOMAIN r.files) <= MaxFiles
            /\ Done("get_llm_guide", [now |-> now], r)

ReadResource ==
    \E uri \in Uris :
        Done("read_resource", [uri |-> uri], ServerReadResource(files, dirs, uri))

ServiceRead ==
    \E uri \in Uris :
        Done("service.read_resource", [uri |-> uri],
             ServiceReadResource(files, dirs, uri))

\* The caller takes the answer of the last call.
Return ==
    /\ ~Idle
    /\ last' = NoCall
    /\ UNCHANGED <<files, dirs, calls>>

\* The Document Store under the six operations.
Next ==
    \/ Return
    \/ Create
    \/ Read
    \/ Update
    \/ Delete
    \/ List
    \/ Search

Spec == Init /\ [][Next]_vars

\* The paths of the guide's life: the guide and one other document.
GuidePaths == { GuidePath, <<A_MD>> }

GuideCreate == CreateOn(GuidePaths)
GuideRead   == ReadOn(GuidePaths)
GuideUpdate == UpdateOn(GuidePaths)
GuideDelete == DeleteOn(GuidePaths)

\* The guide under construction, regeneration, its read paths and the six
\* operations.
GuideNext ==
    \/ Return
    \/ Restart
    \/ Regenerate
    \/ GetGuide
    \/ ReadResource
    \/ ServiceRead
    \/ GuideCreate
    \/ GuideRead
    \/ GuideUpdate
    \/ GuideDelete
    \/ List
    \/ Search

GuideSpec == Init /\ [][GuideNext]_vars

\* A call of the dispatcher with any name and any argument map.
CallWith(op, name, path, content, metadata, query, pattern) ==
    \E order \in (IF name = "search_content"
                  THEN Orderings(Rglob(files, dirs, MD_PATTERN)) ELSE {<<>>}) :
        LET arguments == MakeArguments(path, content, metadata, query, pattern)
        IN  Done(op, [name |-> name, arguments |-> arguments],
                 IF op = "service.call_tool"
                 THEN ServiceCallTool(files, dirs, order, name, arguments)
                 ELSE ServerCallTool(files, dirs, order, name, arguments))

ServiceCall ==
    \E name \in ToolNames, path \in PathOptions, content \in ContentOptions,
       metadata \in UpdateMetas, query \in QueryOptions, pattern \in PatternOptions :
        CallWith("service.call_tool", name, path, content, metadata, query, pattern)

ServerCall ==
    \E name \in ToolNames, path \in PathOptions, content \in ContentOptions,
       metadata \in UpdateMetas, query \in QueryOptions, pattern \in PatternOptions :
        CallWith("server.call_tool", name, path, content, metadata, query, pattern)

\* The store behind the dispatchers of the service and of the server.
DispatchNext ==
    \/ Return
    \/ ServiceCall
    \/ ServerCall

DispatchSpec == Init /\ [][DispatchNext]_vars

\* A content and a query for _get_match_preview, and no store.
PreviewInit ==
    \E content \in PreviewContents, query \in PreviewQueries :
        /\ files = NoFiles
        /\ dirs  = {}
        /\ last  = [op |-> "input", args |-> [content |-> content, query |-> query],
                    out |-> "ok", ret |-> <<>>]
        /\ calls = [c \in Callers |-> NoUpdate]

\* _get_match_preview(content, query) with the default context_chars.
Preview ==
    /\ last.op = "input"
    /\ last' = [last EXCEPT !.op = "_get_match_preview",
                            !.ret = GetMatchPreview(last.args.content,
                                                    last.args.query, ContextChars)]
    /\ UNCHANGED <<files, dirs, calls>>

PreviewNext == Preview

PreviewSpec == PreviewInit /\ [][PreviewNext]_vars

\* The path the concurrent callers update, and what they pass.
RacePath == <<A_MD>>
RaceMetas == { <<>>, <<M_upd>>, <<M_upd2>> }

\* update_file up to the end of its read: the existence test, and the load
\* of the file into the caller's memory.
UpdateRead(c) ==
    /\ calls[c].pc = "idle"
    /\ \E content \in UpdateBodies, metadata \in RaceMetas :
          LET loc  == Locate(JoinPath(RootPath, RacePath))
              call == [path |-> RacePath, content |-> content,
                       metadata |-> metadata]
          IN  calls' = [calls EXCEPT ![c] =
                  IF ~Exists(files, dirs, loc)
                  THEN [pc |-> "done", call |-> call, out |-> "FileNotFoundError"]
                  ELSE IF loc \in dirs
                  THEN [pc |-> "done", call |-> call, out |-> "IsADirectoryError"]
                  ELSE [pc |-> "read",
                        call |-> [path |-> RacePath, content |-> content,
                                  metadata |-> metadata,
                                  seen |-> files[loc],
                                  post |-> Loads(files[loc])]]]
    /\ UNCHANGED <<files, dirs, last>>

\* update_file from the change of the post to its return: the write of the
\* file.
UpdateWrite(c) ==
    /\ calls[c].pc = "read"
    /\ files' = WriteText(files, Locate(JoinPath(RootPath, calls[c].call.path)),
                          WrittenText(files, calls[c].call))
    /\ calls' = [calls EXCEPT ![c] =
                    [pc |-> "done", call |-> calls[c].call, out |-> "ok"]]
    /\ UNCHANGED <<dirs, last>>

\* The caller takes the answer of its update_file.
UpdateReturn(c) ==
    /\ calls[c].pc = "done"
    /\ calls' = [calls EXCEPT ![c] = NoUpdate]
    /\ UNCHANGED <<files, dirs, last>>

\* create_file of the document the callers update.
RaceCreate ==
    LET r == CreateFile(files, dirs, RacePath, <<"a">>, <<>>)
    IN  /\ Cardinality(DOMAIN r.files) <= MaxFiles
        /\ Done("create_file",
                [path |-> RacePath, content |-> <<"a">>, metadata |-> <<>>], r)

\* Two callers of update_file on one document, their steps interleaved.
RaceNext ==
    \/ Return
    \/ RaceCreate
    \/ \E c \in Callers : UpdateRead(c)
    \/ \E c \in Callers : UpdateWrite(c)
    \/ \E c \in Callers : UpdateReturn(c)

RaceSpec == Init /\ [][RaceNext]_vars

(***************************************************************************)
(* The claims                                                              *)
(***************************************************************************)

\* The location a relative path names.
LocOf(rel) == Locate(JoinPath(RootPath, rel))

\* The metadata map of an optional metadata argument.
Given(metadata) == IF metadata = <<>> THEN NoMetadata ELSE metadata[1]

\* Every key of small is in big with the same value.
Includes(big, small) ==
    \A k \in DOMAIN small : k \in DOMAIN big /\ big[k] = small[k]

\* Every file but the one at loc is the same in fs and fs2.
SameElsewhere(fs, fs2, loc) ==
    /\ (DOMAIN fs) \ {loc} = (DOMAIN fs2) \ {loc}
    /\ \A l \in (DOMAIN fs) \ {loc} : fs2[l] = fs[l]

\* The markdown files below the root.
MarkdownFiles(fs) ==
    {l \in DOMAIN fs : UnderRoot(l) /\ EndsWith(Name(l), <<".", "m", "d">>)}

\* C1: create_file(p, B, M) followed by read_file on the returned path yields
\* content B and a metadata map that holds every key of M with its value.
C1_RoundTrip ==
    (last.op = "create_file" /\ last.out = "ok") =>
        LET r == ReadFile(files, dirs, last.ret)
        IN  /\ r.out = "ok"
            /\ r.ret.content = last.args.content
            /\ Includes(r.ret.metadata, Given(last.args.metadata))

\* What the code does for C1: the content read back is B without its leading
\* and trailing blanks.
C1_RoundTripStripped ==
    (last.op = "create_file" /\ last.out = "ok") =>
        LET r == ReadFile(files, dirs, last.ret)
        IN  /\ r.out = "ok"
            /\ r.ret.content = Strip(last.args.content)
            /\ Includes(r.ret.metadata, Given(last.args.metadata))

\* C2: after update_file(p, content, metadata) on an existing document with
\* body B0 and metadata M0, read_file(p) yields the content given, or B0 when
\* none was, and M0 overridden by the keys given.
C2_PartialUpdate ==
    [][ (last'.op = "update_file" /\ last'.out = "ok") =>
            LET p      == last'.args.path
                before == ReadFile(files, dirs, p).ret
                after  == ReadFile(files', dirs', p).ret
            IN  /\ after.content = IF last'.args.content # <<>>
                                   THEN last'.args.content[1] ELSE before.content
                /\ after.metadata =
                      DictUpdate(before.metadata, Given(last'.args.metadata))
      ]_vars

\* What the code does for C2: a content given is read back stripped.
C2_PartialUpdateStripped ==
    [][ (last'.op = "update_file" /\ last'.out = "ok") =>
            LET p      == last'.args.path
                before == ReadFile(files, dirs, p).ret
                after  == ReadFile(files', dirs', p).ret
            IN  /\ after.content = IF last'.args.content # <<>>
                                   THEN Strip(last'.args.content[1])
                                   ELSE before.content
                /\ after.metadata =
                      DictUpdate(before.metadata, Given(last'.args.metadata))
      ]_vars

\* C3: create_file on a path where a document exists does not fail with
\* "already exists", and read_file then yields the new body and exactly the
\* metadata given.
C3_Overwrite ==
    [][ (last'.op = "create_file" /\ LocOf(last'.args.path) \in DOMAIN files) =>
            LET after == ReadFile(files', dirs', last'.args.path)
            IN  /\ last'.out # "FileExistsError"
                /\ after.out = "ok"
                /\ after.ret.content = last'.args.content
                /\ after.ret.metadata = Given(last'.args.metadata)
      ]_vars

\* What the code does for C3: the new body is read back stripped.
C3_OverwriteStripped ==
    [][ (last'.op = "create_file" /\ LocOf(last'.args.path) \in DOMAIN files) =>
            LET after == ReadFile(files', dirs', last'.args.path)
            IN  /\ last'.out # "FileExistsError"
                /\ after.out = "ok"
                /\ after.ret.content = Strip(last'.args.content)
                /\ after.ret.metadata = Given(last'.args.metadata)
      ]_vars

\* C4 as stated: read_file and update_file on a path where no document exists
\* fail with "file not found" and leave the store as it was, and read_file
\* never changes the store.
C4_NoDocumentIsNotFound ==
    [][ /\ (/\ last'.op \in {"read_file", "update_file"}
            /\ LocOf(last'.args.path) \notin DOMAIN files)
           => (/\ last'.out = "FileNotFoundError"
               /\ files' = files
               /\ dirs' = dirs)
        /\ (last'.op = "read_file") => (files' = files /\ dirs' = dirs)
      ]_vars

\* C4: read_file and update_file fail with "file not found" on a path where
\* nothing exists and with "is a directory" on a path that names a directory;
\* both leave the store as it was, and read_file never changes the store.
C4_MissingTarget ==
    [][ /\ (/\ last'.op \in {"read_file", "update_file"}
            /\ LocOf(last'.args.path) \notin DOMAIN files)
           => (/\ last'.out = IF LocOf(last'.args.path) \in dirs
                              THEN "IsADirectoryError" ELSE "FileNotFoundError"
               /\ files' = files
               /\ dirs' = dirs)
        /\ (last'.op = "read_file") => (files' = files /\ dirs' = dirs)
      ]_vars

\* An update_file of a path where nothing exists has failed and nothing is there.
C4_Witness ==
    /\ last.op = "update_file"
    /\ last.out = "FileNotFoundError"
    /\ ~Exists(files, dirs, LocOf(last.args.path))

\* C5 as stated: delete_file never fails; on a path where nothing exists it
\* returns false and changes nothing; otherwise it returns true, the path is
\* gone, every other document is untouched and a second delete returns false.
C5_DeleteNeverRaises ==
    [][ (last'.op = "delete_file") =>
            LET loc == LocOf(last'.args.path)
            IN  /\ last'.out = "ok"
                /\ IF ~Exists(files, dirs, loc)
                   THEN last'.ret = FALSE /\ files' = files /\ dirs' = dirs
                   ELSE /\ last'.ret = TRUE
                        /\ ~Exists(files', dirs', loc)
                        /\ SameElsewhere(files, files', loc)
                        /\ DeleteFile(files', dirs', last'.args.path).out = "ok"
                        /\ DeleteFile(files', dirs', last'.args.path).ret = FALSE
      ]_vars

\* C5: delete_file fails only on a path that names a directory, with "is a
\* directory" and no change; on a path where nothing exists it returns false
\* and changes nothing; on a document it returns true, the path is gone, every
\* other document is untouched and a second delete returns false.
C5_Delete ==
    [][ (last'.op = "delete_file") =>
            LET loc == LocOf(last'.args.path)
            IN  IF loc \in dirs
                THEN /\ last'.out = "IsADirectoryError"
                     /\ files' = files
                     /\ dirs' = dirs
                ELSE /\ last'.out = "ok"
                     /\ IF loc \notin DOMAIN files
                        THEN last'.ret = FALSE /\ files' = files /\ dirs' = dirs
                        ELSE /\ last'.ret = TRUE
                             /\ ~Exists(files', dirs', loc)
                             /\ SameElsewhere(files, files', loc)
                             /\ dirs' = dirs
                             /\ DeleteFile(files', dirs', last'.args.path).out = "ok"
                             /\ DeleteFile(files', dirs', last'.args.path).ret = FALSE
      ]_vars

\* A delete_file has returned true, its path is gone and another document is left.
C5_Witness ==
    /\ last.op = "delete_file"
    /\ last.out = "ok"
    /\ last.ret = TRUE
    /\ ~Exists(files, dirs, LocOf(last.args.path))
    /\ DOMAIN files # {}

\* A delete_file of a path where nothing exists has returned false.
C5_WitnessAbsent ==
    /\ last.op = "delete_file"
    /\ last.out = "ok"
    /\ last.ret = FALSE

\* C6: list_files with the default pattern returns, strictly ascending and so
\* without duplicates, the root-relative paths of exactly the regular files
\* below the root whose name ends in ".md".
C6_ListFiles ==
    (last.op = "list_files" /\ last.args.pattern = MD_PATTERN) =>
        /\ \A i \in 1..(Len(last.ret) - 1) : StrLess(last.ret[i], last.ret[i + 1])
        /\ {last.ret[i] : i \in 1..Len(last.ret)} =
              {Str(RelParts(l)) : l \in MarkdownFiles(files)}

\* A default listing of two documents while a directory named like a markdown
\* file exists below the root.
C6_Witness ==
    /\ last.op = "list_files"
    /\ last.args.pattern = MD_PATTERN
    /\ Len(last.ret) = 2
    /\ \E d \in dirs : UnderRoot(d) /\ d # <<>> /\ d # RootLoc
                       /\ EndsWith(Name(d), <<".", "m", "d">>)

\* The file_path values of a search result.
ResultPaths(ret) == {ret[i].file_path : i \in 1..Len(ret)}

\* C7: search_content(q) returns one result for each markdown file below the
\* root whose full text, metadata block included, contains q without regard
\* to case, and for no other file; the set of files is the same for every
\* query that differs from q only in case and for every walk order.
C7_Search ==
    (last.op = "search_content") =>
        LET q == last.args.query
        IN  /\ ResultPaths(last.ret) =
                  {Str(RelParts(l)) :
                      l \in {x \in MarkdownFiles(files) :
                                Contains(Lower(files[x]), Lower(q))}}
            /\ Cardinality(ResultPaths(last.ret)) = Len(last.ret)
            /\ \A q2 \in Queries : Lower(q2) = Lower(q) =>
                  \A order \in Orderings(Rglob(files, dirs, MD_PATTERN)) :
                      ResultPaths(SearchContent(files, order, q2)) =
                          ResultPaths(last.ret)

\* A search has returned a file whose body does not contain the query in any
\* case and whose text contains it only in another case.
C7_Witness ==
    /\ last.op = "search_content"
    /\ \E x \in MarkdownFiles(files) :
          /\ Str(RelParts(x)) \in ResultPaths(last.ret)
          /\ ~Contains(Lower(Loads(files[x]).content), Lower(last.args.query))
          /\ ~Contains(files[x], last.args.query)

\* The guide document exists and its metadata says type system.
GuideIsThere(fs) ==
    /\ GuideLoc \in DOMAIN fs
    /\ LET metadata == Loads(fs[GuideLoc]).metadata
       IN  K_type \in DOMAIN metadata /\ metadata[K_type] = V_system

\* C8: a read of the guide, by get_llm_guide or by the read of the guide
\* resource, creates the guide with type system when it is absent, and leaves
\* every file as it is when the guide is there.
C8_GuideLaziness ==
    [][ (\/ last'.op = "get_llm_guide"
         \/ (last'.op = "read_resource" /\ last'.args.uri = GuideUri)) =>
            IF GuideLoc \notin DOMAIN files
            THEN GuideIsThere(files')
            ELSE files' = files /\ dirs' = dirs
      ]_vars

\* What the code does for C8: get_llm_guide is lazy, and it returns the
\* content of the guide file.
C8_GetLlmGuideIsLazy ==
    [][ (last'.op = "get_llm_guide") =>
            /\ IF GuideLoc \notin DOMAIN files
               THEN GuideIsThere(files')
               ELSE files' = files /\ dirs' = dirs
            /\ last'.out = "ok"
            /\ last'.ret.content = Loads(files'[GuideLoc]).content
      ]_vars

\* What the code does for C8: the read of the guide resource never writes, and
\* answers with an error text when the guide is absent.
C8_ResourceReadNeverCreates ==
    [][ (last'.op = "read_resource") =>
            /\ files' = files
            /\ dirs' = dirs
            /\ (last'.args.uri = GuideUri /\ GuideLoc \notin DOMAIN files) =>
                  last'.ret = <<"Error: ", "File not found: ">> \o Str(GuidePath)
      ]_vars

\* C9: whenever the guide document exists, its metadata holds type system,
\* the title "LLM Usage Guide" and a generated timestamp.
C9_GuideMetadata ==
    (GuideLoc \in DOMAIN files) =>
        LET metadata == Loads(files[GuideLoc]).metadata
        IN  /\ K_type \in DOMAIN metadata /\ metadata[K_type] = V_system
            /\ K_title \in DOMAIN metadata /\ metadata[K_title] = V_title
            /\ K_generated \in DOMAIN metadata

\* C10: every file the store has written lies below the root.
C10_Containment == \A l \in DOMAIN files : UnderRoot(l)

\* A step in which one of the two dispatchers answers a call.
IsCallTool(op) == op \in {"service.call_tool", "server.call_tool"}

\* The first token of every error text of call_tool.
ERROR_PREFIX == "Error executing tool '"

\* The required arguments of an operation, as its input schema declares them.
Required(name) ==
    IF name = "create_file" THEN {"path", "content"}
    ELSE IF name \in {"read_file", "update_file", "delete_file"} THEN {"path"}
    ELSE IF name = "search_content" THEN {"query"}
    ELSE {}

\* The outcome of the store operation a complete call asks for.
StoreOutcome(fs, ds, name, arguments) ==
    CASE name = "create_file" ->
            CreateFile(fs, ds, arguments["path"], arguments["content"],
                       Get(arguments, "metadata"))
      [] name = "read_file"   -> ReadFile(fs, ds, arguments["path"])
      [] name = "update_file" ->
            UpdateFile(fs, ds, arguments["path"], Get(arguments, "content"),
                       Get(arguments, "metadata"))
      [] name = "delete_file" -> DeleteFile(fs, ds, arguments["path"])
      [] OTHER -> Outcome(fs, ds, "ok", <<>>)

\* C11: call_tool returns a text for every name and every argument map and
\* never raises; for a name outside the six operations the text is "Unknown
\* tool" and the store is untouched; a failure of the store operation comes
\* back as an error text and the store is as the failed operation left it.
C11_AlwaysAnswers ==
    [][ IsCallTool(last'.op) =>
            LET name      == last'.args.name
                arguments == last'.args.arguments
            IN  /\ last'.out = "ok"
                /\ last'.ret # <<>>
                /\ (name \notin TOOLS) =>
                      /\ last'.ret = <<"Unknown tool: ", name>>
                      /\ files' = files
                      /\ dirs' = dirs
                /\ (name \in TOOLS /\ Required(name) \subseteq DOMAIN arguments) =>
                      LET r == StoreOutcome(files, dirs, name, arguments)
                      IN  /\ files' = r.files
                          /\ dirs' = r.dirs
                          /\ (r.out # "ok") <=> (last'.ret[1] = ERROR_PREFIX)
                          /\ (r.out = "FileNotFoundError") =>
                                Contains(last'.ret, <<"File not found: ">>)
      ]_vars

\* The service's call_tool has answered a create_file with an error text after
\* the store wrote the file and then failed.
C11_Witness ==
    /\ last.op = "service.call_tool"
    /\ last.args.name = "create_file"
    /\ last.out = "ok"
    /\ last.ret[1] = ERROR_PREFIX
    /\ LocOf(<<SLASH, X_MD>>) \in DOMAIN files

\* C12 as stated: a call of a known operation without a required argument
\* ends in a failure that reaches the caller, and no document changes.
C12_MissingArgumentPropagates ==
    [][ (/\ IsCallTool(last'.op)
         /\ last'.args.name \in TOOLS
         /\ ~(Required(last'.args.name) \subseteq DOMAIN last'.args.arguments)) =>
            /\ last'.out # "ok"
            /\ files' = files
            /\ dirs' = dirs
      ]_vars

\* C12: a call of a known operation without a required argument raises
\* nothing: call_tool returns an error text that names a missing argument,
\* and no document changes.
C12_MissingArgument ==
    [][ (/\ IsCallTool(last'.op)
         /\ last'.args.name \in TOOLS
         /\ ~(Required(last'.args.name) \subseteq DOMAIN last'.args.arguments)) =>
            /\ last'.out = "ok"
            /\ last'.ret[1] = ERROR_PREFIX
            /\ \E key \in Required(last'.args.name) \ DOMAIN last'.args.arguments :
                  Contains(last'.ret, KeyErrorText(key))
            /\ files' = files
            /\ dirs' = dirs
      ]_vars

\* The server's call_tool has answered a create_file that has a path and no
\* content with an error text naming the content.
C12_Witness ==
    /\ last.op = "server.call_tool"
    /\ last.args.name = "create_file"
    /\ "path" \in DOMAIN last.args.arguments
    /\ "content" \notin DOMAIN last.args.arguments
    /\ last.out = "ok"
    /\ Contains(last.ret, KeyErrorText("content"))

\* A step in which one of the two resource handlers answers a read.
IsReadResource(op) == op \in {"read_resource", "service.read_resource"}

C13_OnlyTheServiceRejects ==
    [][ (IsReadResource(last'.op) /\ last'.args.uri # GuideUri) =>
            IF last'.op = "service.read_resource"
            THEN last'.out = "ValueError"
            ELSE /\ last'.out = "ok"
                 /\ last'.ret = <<"Unknown resource: ">> \o last'.args.uri
      ]_vars

\* The places of content c, counted from 0, where q occurs without regard to
\* case.
Occurrences(c, q) ==
    {i \in 0..(Len(c) - Len(q)) : Lower(SubSeq(c, i + 1, i + Len(q))) = Lower(q)}

\* The least of a non-empty set of numbers.
Least(S) == CHOOSE i \in S : \A j \in S : i <= j

ELLIPSIS == <<".", ".", ".">>

\* C14: when q occurs in c without regard to case and i is the place of its
\* first occurrence, the preview is c from max(0, i-100) to min(len(c),
\* i+len(q)+100), behind "..." exactly when that slice does not start c and
\* before "..." exactly when it does not end c; it holds the matched text and
\* is at most len(q)+206 characters long.
C14_MatchPreview ==
    (last.op = "_get_match_preview"
        /\ Occurrences(last.args.content, last.args.query) # {}) =>
        LET c     == last.args.content
            q     == last.args.query
            i     == Least(Occurrences(c, q))
            from  == IF i - 100 > 0 THEN i - 100 ELSE 0
            to    == IF i + Len(q) + 100 < Len(c) THEN i + Len(q) + 100 ELSE Len(c)
            slice == SubSeq(c, from + 1, to)
        IN  /\ last.ret = (IF from > 0 THEN ELLIPSIS ELSE <<>>) \o slice
                          \o (IF to < Len(c) THEN ELLIPSIS ELSE <<>>)
            /\ Contains(last.ret, SubSeq(c, i + 1, i + Len(q)))
            /\ Len(last.ret) <= Len(q) + 206

\* What the code does for C14: the claim holds of every content in which
\* lower-casing changes no length.
C14_MatchPreviewSameLength ==
    (last.op = "_get_match_preview"
        /\ Len(Lower(last.args.content)) = Len(last.args.content)) =>
        C14_MatchPreview

\* What the code does for C14: the place it searches from is that of the first
\* occurrence in the lower-cased content, which lies further right than the
\* occurrence in the content by the number of characters that lower-casing
\* has doubled before it.
C14_PlaceInLoweredContent ==
    (last.op = "_get_match_preview"
        /\ Occurrences(last.args.content, last.args.query) # {}) =>
        LET c     == last.args.content
            q     == last.args.query
            i     == Least(Occurrences(c, q))
            moved == i + Cardinality({k \in 1..i : c[k] = I_DOT})
            from  == IF moved - 100 > 0 THEN moved - 100 ELSE 0
            to    == IF moved + Len(q) + 100 < Len(c)
                     THEN moved + Len(q) + 100 ELSE Len(c)
        IN  last.ret = (IF from > 0 THEN ELLIPSIS ELSE <<>>) \o SubSeq(c, from + 1, to)
                       \o (IF to < Len(c) THEN ELLIPSIS ELSE <<>>)

\* C15: update_file calls on one existing document interleave without lock
\* or conflict detection: a call that has read the document always gets to
\* write and returns success, whatever was written since it read; the
\* document is then exactly what that call computed from the version it read,
\* and no other file changes.
C15_LastWriterWins ==
    [][ \A c \in Callers :
            /\ (calls[c].pc = "idle" /\ calls'[c].pc # "idle"
                  /\ LocOf(RacePath) \in DOMAIN files) =>
                  (calls'[c].pc = "read" /\ files' = files)
            /\ (calls[c].pc = "read" /\ calls'[c].pc = "done") =>
                  LET call == calls[c].call
                      loc  == LocOf(call.path)
                  IN  /\ calls'[c].out = "ok"
                      /\ loc \in DOMAIN files'
                      /\ files'[loc] =
                            Dumps(UpdatedPost(Loads(call.seen), call.content,
                                              call.metadata))
                      /\ SameElsewhere(files, files', loc)
      ]_vars

\* Two calls with disjoint metadata keys have read the same version and both
\* returned success, and the document holds the key of one of them only.
C15_Witness ==
    /\ calls[1].pc = "done" /\ calls[1].out = "ok"
    /\ calls[2].pc = "done" /\ calls[2].out = "ok"
    /\ calls[1].call.metadata = <<M_upd>>
    /\ calls[2].call.metadata = <<M_upd2>>
    /\ calls[1].call.seen = calls[2].call.seen
    /\ LocOf(RacePath) \in DOMAIN files
    /\ DOMAIN Loads(files[LocOf(RacePath)]).metadata = {K_id}

====
